---- MODULE Spec2Model ----
(***************************************************************************)
(* A model of the two algorithmic pieces of the EEG classifier:            *)
(*   - interaug (src/src/utils.py), the segment-recombination              *)
(*     augmentation, as a step machine over its loops;                     *)
(*   - EEGTransformer.forward and TransformerBlock.forward                 *)
(*     (src/src/networks.py), as a shape/data-flow pipeline and as an      *)
(*     integer-valued run of one encoder block.                            *)
(***************************************************************************)
EXTENDS Integers, Sequences, FiniteSets

VARIABLES
    \* ---- interaug (utils.py:260-287) ----
    label,          \* the input label array (labels of timg's windows)
    batch_size,     \* the batch_size argument
    pc,             \* position in interaug
    cls4aug,        \* loop variable of line 263
    ri,             \* loop variable of line 269
    rj,             \* loop variable of line 270
    tmp_data,       \* timg[cls_idx]
    tmp_label,      \* label[cls_idx]
    tmp_aug_data,   \* the class's synthetic windows being filled
    aug_data,       \* list of per-class arrays, then the returned array
    aug_label,      \* list of per-class label arrays, then the returned array
    err,            \* the exception raised, "none" while there is none
    alt,            \* number of draws so far that picked another index than 0
    \* ---- EEGTransformer.forward (networks.py:81-91) ----
    net,            \* the constructed model and the call: parameters, N, mode
    fpc,            \* position in forward
    shape,          \* shape of x
    deps,           \* per index of x's dim 0: the input windows it is computed from
    layer,          \* number of encoder blocks applied
    block_in,       \* shape of x at the entry of the current encoder block
    ferr,           \* the failure raised by forward, "none" while there is none
    \* ---- TransformerBlock.forward on values (networks.py:32-41) ----
    blk,            \* the block's input X, attention output, parameters, mode
    bpc,            \* position in the block's forward
    run             \* two executions on the same input and parameters

augVars == <<label, batch_size, pc, cls4aug, ri, rj, tmp_data, tmp_label,
             tmp_aug_data, aug_data, aug_label, err, alt>>

fwdVars == <<net, fpc, shape, deps, layer, block_in, ferr>>

blkVars == <<blk, bpc, run>>

vars == <<augVars, fwdVars, blkVars>>

----------------------------------------------------------------------------
(* Bounds of the model *)

\* longest input batch
MaxN == 5
\* largest batch_size argument
MaxBatch == 8
\* draws of one call that may pick another pool member than the first
MaxAlt == 1

(* Constants of the program *)

NumClasses == 4
NumSegments == 8
SegmentWidth == 125
WindowSize == 1125

Classes == 0 .. (NumClasses - 1)

Min(a, b) == IF a < b THEN a ELSE b
Max(a, b) == IF a > b THEN a ELSE b

----------------------------------------------------------------------------
(* Arrays of windows.                                                      *)
(*                                                                         *)
(* A window (1 x 22 x 1125) is kept as a sequence of runs over its time    *)
(* axis; the code only ever slices the time axis, all channels together.   *)
(* A run [lo, hi, src, off, sig] says: samples lo <= t < hi hold the       *)
(* value of input window src at sample t + off (src = 0: the value 0.0).   *)
(* sig is the number of significand bits the values need (0 for 0.0, 24    *)
(* for float32 data).  The runs of a window tile 0 .. WindowSize-1.        *)

\* Python's int(batch_size / 4): true division, then truncation
IntDiv4(b) == b \div 4

\* timg[w] for the w-th window of the input (1-based here), float32 data
InputWindow(w) ==
    [runs |-> << [lo |-> 0, hi |-> WindowSize, src |-> w, off |-> 0, sig |-> 24] >>,
     made |-> -1, dtype |-> "float32"]

\* one window of np.zeros((n, 1, 22, 1125)), tagged with the class whose
\* loop iteration allocated it (made is a history tag, not data)
ZeroWindow(c) ==
    [runs |-> << [lo |-> 0, hi |-> WindowSize, src |-> 0, off |-> 0, sig |-> 0] >>,
     made |-> c, dtype |-> "float64"]

Zeros(n, c) == [k \in 1 .. n |-> ZeroWindow(c)]

\* np.where(label == c)[0], as 1-based positions in ascending order
RECURSIVE WhereFrom(_, _, _)
WhereFrom(lab, c, i) ==
    IF i > Len(lab) THEN << >>
    ELSE IF lab[i] = c THEN << i >> \o WhereFrom(lab, c, i + 1)
    ELSE WhereFrom(lab, c, i + 1)

Where(lab, c) == WhereFrom(lab, c, 1)

\* a[idx] for an index array idx (fancy indexing copies the picked rows)
Take(a, idx) == [k \in 1 .. Len(idx) |-> a[idx[k]]]

\* the runs of rs that fall in a <= t < b, trimmed to it
ClipRuns(rs, a, b) ==
    LET keep == SelectSeq(rs, LAMBDA r : r.lo < b /\ r.hi > a)
    IN  [k \in 1 .. Len(keep) |->
            [keep[k] EXCEPT !.lo = Max(@, a), !.hi = Min(@, b)]]

\* a slice bound as numpy clips it to the axis
ClipBound(i) == Min(Max(i, 0), WindowSize)

\* the copy at utils.py:272 with dst and src sliced alike:
\* dst[..., a:b] = src[..., a:b], stored in dst's dtype (float64 holds every
\* float32 exactly, so sig is kept)
SliceAssign(dst, src, a, b) ==
    LET lo == ClipBound(a)
        hi == ClipBound(b)
    IN  IF lo >= hi THEN dst
        ELSE [dst EXCEPT !.runs = ClipRuns(dst.runs, 0, lo)
                                    \o ClipRuns(src.runs, lo, hi)
                                    \o ClipRuns(dst.runs, hi, WindowSize)]

\* the time slice of segment j: rj * 125 : (rj + 1) * 125
SegLo(j) == j * SegmentWidth
SegHi(j) == (j + 1) * SegmentWidth

\* np.concatenate of a list of arrays along axis 0
RECURSIVE Concatenate(_)
Concatenate(list) ==
    IF list = << >> THEN << >> ELSE Head(list) \o Concatenate(Tail(list))

\* np.random.permutation(n): every arrangement of 0 .. n-1
PermutationsOf(n) ==
    {p \in [1 .. n -> 0 .. (n - 1)] : \A i, j \in 1 .. n : i # j => p[i] # p[j]}

\* tensor.float(): narrowing to float32 rounds what needs more than 24 bits
ToFloat32(w) ==
    [w EXCEPT !.dtype = "float32",
              !.runs = [k \in 1 .. Len(w.runs) |->
                            IF w.runs[k].sig <= 24 THEN w.runs[k]
                            ELSE [w.runs[k] EXCEPT !.src = -1, !.sig = 24]]]

\* the value of sample t of window w: <<source window, source sample>>
Sample(w, t) ==
    LET r == CHOOSE x \in {w.runs[k] : k \in 1 .. Len(w.runs)} : x.lo <= t /\ t < x.hi
    IN  IF r.src = 0 THEN << 0, 0 >> ELSE << r.src, t + r.off >>

----------------------------------------------------------------------------
(* interaug *)

Sorted(s) == \A i \in 1 .. (Len(s) - 1) : s[i] <= s[i + 1]

\* the label arrays the calls are made with: class-sorted batches of every
\* length up to MaxN and every class distribution
LabelInputs ==
    {s \in UNION {[1 .. n -> Classes] : n \in 0 .. MaxN} : Sorted(s)}

AugIdle ==
    /\ label = << >> /\ batch_size = 0 /\ pc = "idle" /\ cls4aug = 0
    /\ ri = 0 /\ rj = 0 /\ tmp_data = << >> /\ tmp_label = << >>
    /\ tmp_aug_data = << >> /\ aug_data = << >> /\ aug_label = << >>
    /\ err = "none" /\ alt = 0

FwdIdle ==
    /\ net = << >> /\ fpc = "idle" /\ shape = << >> /\ deps = << >>
    /\ layer = 0 /\ block_in = << >> /\ ferr = "none"

BlkIdle ==
    /\ blk = << >> /\ bpc = "idle" /\ run = << >>

AugInit ==
    /\ FwdIdle
    /\ BlkIdle
    /\ label \in LabelInputs
    /\ batch_size \in 1 .. MaxBatch
    /\ pc = "class"
    /\ cls4aug = 0
    /\ ri = 0
    /\ rj = 0
    /\ tmp_data = << >>
    /\ tmp_label = << >>
    /\ tmp_aug_data = << >>
    /\ aug_data = << >>
    /\ aug_label = << >>
    /\ err = "none"
    /\ alt = 0

\* utils.py:263-268: the head of an iteration of the class loop
SelectClass ==
    /\ pc = "class"
    /\ cls4aug < NumClasses
    /\ LET cls_idx == Where(label, cls4aug)
       IN  /\ tmp_data' = Take([w \in 1 .. Len(label) |-> InputWindow(w)], cls_idx)
           /\ tmp_label' = Take(label, cls_idx)
    /\ tmp_aug_data' = Zeros(IntDiv4(batch_size), cls4aug)
    /\ ri' = 0
    /\ rj' = 0
    /\ pc' = "fill"
    /\ UNCHANGED <<label, batch_size, cls4aug, aug_data, aug_label, err, alt,
                   fwdVars, blkVars>>

\* np.random.randint(0, high, 8) raises ValueError("low >= high") for high <= 0
RandintRaises(high) == high <= 0

\* utils.py:269-273: one pass of the body of the segment loop.  The 8
\* indices are drawn anew on every pass and only rand_idx[rj] is used.
DrawSegmentSkipEmpty ==
    /\ pc = "fill"
    /\ ri < IntDiv4(batch_size)
    /\ IF Len(tmp_data) = 0
       THEN UNCHANGED <<tmp_aug_data, alt>>
       ELSE \E idx \in 0 .. (Len(tmp_data) - 1) :
               /\ idx = 0 \/ alt < MaxAlt
               /\ alt' = IF idx = 0 THEN alt ELSE alt + 1
               /\ tmp_aug_data' =
                    [tmp_aug_data EXCEPT ![ri + 1] =
                        SliceAssign(@, tmp_data[idx + 1], SegLo(rj), SegHi(rj))]
    /\ IF rj + 1 < NumSegments
       THEN rj' = rj + 1 /\ ri' = ri
       ELSE rj' = 0 /\ ri' = ri + 1
    /\ UNCHANGED <<label, batch_size, pc, cls4aug, tmp_data, tmp_label,
                   aug_data, aug_label, err, fwdVars, blkVars>>

DrawSegment ==
    /\ pc = "fill"
    /\ ri < IntDiv4(batch_size)
    /\ IF RandintRaises(Len(tmp_data))
       THEN /\ pc' = "raised"
            /\ err' = "ValueError"
            /\ UNCHANGED <<tmp_aug_data, ri, rj, alt>>
       ELSE /\ \E idx \in 0 .. (Len(tmp_data) - 1) :
                  /\ idx = 0 \/ alt < MaxAlt
                  /\ alt' = IF idx = 0 THEN alt ELSE alt + 1
                  /\ tmp_aug_data' =
                        [tmp_aug_data EXCEPT ![ri + 1] =
                            SliceAssign(@, tmp_data[idx + 1], SegLo(rj), SegHi(rj))]
            /\ IF rj + 1 < NumSegments
               THEN rj' = rj + 1 /\ ri' = ri
               ELSE rj' = 0 /\ ri' = ri + 1
            /\ UNCHANGED <<pc, err>>
    /\ UNCHANGED <<label, batch_size, cls4aug, tmp_data, tmp_label,
                   aug_data, aug_label, fwdVars, blkVars>>

\* utils.py:275-276: the class's windows and the class's *input* labels
\* (all of them: the [:int(batch_size / 4)] is commented out) are appended
AppendClass ==
    /\ pc = "fill"
    /\ ri >= IntDiv4(batch_size)
    /\ aug_data' = Append(aug_data, tmp_aug_data)
    /\ aug_label' = Append(aug_label, tmp_label)
    /\ cls4aug' = cls4aug + 1
    /\ pc' = IF cls4aug + 1 < NumClasses THEN "class" ELSE "shuffle"
    /\ UNCHANGED <<label, batch_size, ri, rj, tmp_data, tmp_label,
                   tmp_aug_data, err, alt, fwdVars, blkVars>>

\* utils.py:277-281.  aug_shuffle is a permutation of range(len(aug_data)),
\* so aug_label[aug_shuffle] reads index len(aug_data) - 1 whichever
\* permutation is drawn: IndexError exactly when aug_label is shorter.
Shuffle ==
    /\ pc = "shuffle"
    /\ LET data == Concatenate(aug_data)
           labs == Concatenate(aug_label)
       IN  IF Len(labs) < Len(data)
           THEN /\ pc' = "raised"
                /\ err' = "IndexError"
                /\ UNCHANGED <<aug_data, aug_label>>
           ELSE /\ \E aug_shuffle \in PermutationsOf(Len(data)) :
                      /\ aug_data' = << [k \in 1 .. Len(data) |-> data[aug_shuffle[k] + 1]] >>
                      /\ aug_label' = << [k \in 1 .. Len(data) |-> labs[aug_shuffle[k] + 1]] >>
                /\ pc' = "convert"
                /\ err' = err
    /\ UNCHANGED <<label, batch_size, cls4aug, ri, rj, tmp_data, tmp_label,
                   tmp_aug_data, alt, fwdVars, blkVars>>

\* utils.py:283-287: conversion to a float32 tensor and a long tensor
Return ==
    /\ pc = "convert"
    /\ aug_data' = << [k \in 1 .. Len(aug_data[1]) |-> ToFloat32(aug_data[1][k])] >>
    /\ pc' = "returned"
    /\ UNCHANGED <<label, batch_size, cls4aug, ri, rj, tmp_data, tmp_label,
                   tmp_aug_data, aug_label, err, alt, fwdVars, blkVars>>

AugNext ==
    \/ SelectClass
    \/ DrawSegment
    \/ AppendClass
    \/ Shuffle
    \/ Return

SpecAug == AugInit /\ [][AugNext]_vars

\* the returned pair (aug_data, aug_label)
OutData == aug_data[1]
OutLabel == aug_label[1]

----------------------------------------------------------------------------
(* Properties of interaug *)

\* batch_size is a positive multiple of 4
MultipleOf4 == batch_size > 0 /\ batch_size % 4 = 0

\* each of the 4 classes occurs in label
AllPresent == \A c \in Classes : \E i \in 1 .. Len(label) : label[i] = c

Count(s, c) == Cardinality({i \in 1 .. Len(s) : s[i] = c})

\* the first class, in loop order, without an example in label
FirstAbsent ==
    CHOOSE c \in Classes :
        /\ Count(label, c) = 0
        /\ \A d \in Classes : d < c => Count(label, d) > 0

\* samples a <= t < b of window w are the samples a <= t < b of input window v
SegmentFrom(w, v, a, b) ==
    \A t \in a .. (b - 1) : Sample(w, t) = Sample(InputWindow(v), t)

\* C1: with batch_size a positive multiple of 4 and all 4 classes in label,
\* the call returns exactly batch_size windows and batch_size labels, with
\* batch_size/4 labels of each class, for every class distribution and
\* every input length.
C1_ExactBalancedBatch ==
    (MultipleOf4 /\ AllPresent) =>
        /\ pc # "raised"
        /\ pc = "returned" =>
              /\ Len(OutData) = batch_size
              /\ Len(OutLabel) = batch_size
              /\ \A c \in Classes : Count(OutLabel, c) = batch_size \div 4

\* C2: under the same preconditions, every returned label[i] is the class
\* whose subset was used to build the returned window[i].
C2_PairingPreserved ==
    (MultipleOf4 /\ AllPresent /\ pc = "returned") =>
        \A i \in 1 .. Len(OutData) :
            /\ i <= Len(OutLabel)
            /\ OutLabel[i] = OutData[i].made

\* C3: for every returned window with returned label l and every segment
\* j in 0..7, samples [125 j, 125 (j+1)) equal those of a single input
\* window whose input label is l.
C3_SegmentProvenance ==
    (MultipleOf4 /\ AllPresent /\ pc = "returned") =>
        \A i \in 1 .. Len(OutData) : \A j \in 0 .. (NumSegments - 1) :
            \E v \in 1 .. Len(label) :
                /\ label[v] = OutLabel[i]
                /\ SegmentFrom(OutData[i], v, SegLo(j), SegHi(j))

\* C4: a batch_size that is not divisible by 4 never returns a result.
\* (Stated on inputs that meet every other precondition of the call.)
C4_NonMultipleRejected ==
    (batch_size % 4 # 0 /\ AllPresent) => pc # "returned"

\* C7: the 8 segments of width 125 partition the 1125-sample axis: every
\* sample index lies in exactly one segment, so every sample of every
\* returned window is a copy of a source sample at the same index.
C7_SegmentsCoverWindow ==
    (MultipleOf4 /\ AllPresent /\ pc = "returned") =>
        /\ \A t \in 0 .. (WindowSize - 1) :
              Cardinality({j \in 0 .. (NumSegments - 1) :
                              SegLo(j) <= t /\ t < SegHi(j)}) = 1
        /\ \A i \in 1 .. Len(OutData) : \A t \in 0 .. (WindowSize - 1) :
              \E v \in 1 .. Len(label) :
                  Sample(OutData[i], t) = Sample(InputWindow(v), t)

\* C10, as claimed: with batch_size a positive multiple of 4 and a class
\* without example in label, interaug raises no error.
C10_EmptyClassNoError ==
    (MultipleOf4 /\ ~AllPresent /\ Len(label) > 0) => pc # "raised"

\* C10, amended: with batch_size a positive multiple of 4 and a class
\* without example in label, the call never gets past the first absent
\* class: its first segment draw raises ValueError before any sample of
\* that class is written, and no result is returned.
C10_EmptyClassRaises ==
    (MultipleOf4 /\ ~AllPresent) =>
        /\ pc \notin {"shuffle", "convert", "returned"}
        /\ cls4aug <= FirstAbsent
        /\ (cls4aug = FirstAbsent /\ pc \in {"fill", "raised"}) =>
              /\ ri = 0
              /\ rj = 0
              /\ tmp_aug_data = Zeros(IntDiv4(batch_size), cls4aug)
        /\ pc = "raised" => (err = "ValueError" /\ cls4aug = FirstAbsent)

\* an absent class was reached after an earlier class had been processed,
\* and its draw raised
C10_Witness ==
    /\ MultipleOf4 /\ ~AllPresent
    /\ pc = "raised" /\ err = "ValueError"
    /\ cls4aug > 0 /\ Len(aug_data) = cls4aug

----------------------------------------------------------------------------
(* EEGTransformer: shapes and data flow of forward *)

\* largest batch N fed to forward
MaxFwdBatch == 8
\* largest num_layers
MaxLayers == 2
\* largest num_heads
MaxHeads == 5

\* the input's channel count and time length (N, 22, 1125)
InChannels == 22

\* self.convnet, networks.py:62-73, module by module
ConvNet(E) == <<
    [op |-> "Conv2d",      cin |-> 1,  cout |-> 40, kh |-> 1,  kw |-> 20, sh |-> 1, sw |-> 1],
    [op |-> "BatchNorm2d", cin |-> 40, cout |-> 40, kh |-> 0,  kw |-> 0,  sh |-> 0, sw |-> 0],
    [op |-> "SiLU",        cin |-> 0,  cout |-> 0,  kh |-> 0,  kw |-> 0,  sh |-> 0, sw |-> 0],
    [op |-> "Conv2d",      cin |-> 40, cout |-> 40, kh |-> 22, kw |-> 1,  sh |-> 1, sw |-> 1],
    [op |-> "BatchNorm2d", cin |-> 40, cout |-> 40, kh |-> 0,  kw |-> 0,  sh |-> 0, sw |-> 0],
    [op |-> "SiLU",        cin |-> 0,  cout |-> 0,  kh |-> 0,  kw |-> 0,  sh |-> 0, sw |-> 0],
    [op |-> "AvgPool2d",   cin |-> 0,  cout |-> 0,  kh |-> 1,  kw |-> 30, sh |-> 1, sw |-> 15],
    [op |-> "Dropout",     cin |-> 0,  cout |-> 0,  kh |-> 0,  kw |-> 0,  sh |-> 0, sw |-> 0],
    [op |-> "Conv2d",      cin |-> 40, cout |-> E,  kh |-> 1,  kw |-> 1,  sh |-> 1, sw |-> 1],
    [op |-> "Flatten",     cin |-> 0,  cout |-> 0,  kh |-> 0,  kw |-> 0,  sh |-> 0, sw |-> 0] >>

\* a failed shape check
NoShape == << -1 >>

\* output length of a sliding window (no padding, no dilation)
SlideOut(n, k, s) == (n - k) \div s + 1

\* the shape a module of convnet returns for input shape s, NoShape if it raises
ModuleShape(m, s) ==
    CASE m.op = "Conv2d" ->
            IF Len(s) = 4 /\ s[2] = m.cin /\ s[3] >= m.kh /\ s[4] >= m.kw
            THEN << s[1], m.cout, SlideOut(s[3], m.kh, m.sh), SlideOut(s[4], m.kw, m.sw) >>
            ELSE NoShape
      [] m.op = "BatchNorm2d" ->
            IF Len(s) = 4 /\ s[2] = m.cin THEN s ELSE NoShape
      [] m.op = "AvgPool2d" ->
            IF Len(s) = 4 /\ s[3] >= m.kh /\ s[4] >= m.kw
            THEN << s[1], s[2], SlideOut(s[3], m.kh, m.sh), SlideOut(s[4], m.kw, m.sw) >>
            ELSE NoShape
      [] m.op = "Flatten" ->
            IF Len(s) = 4 THEN << s[1], s[2], s[3] * s[4] >> ELSE NoShape
      [] OTHER -> s

\* every index of dim 0 comes to depend on what any index depended on
MixDim0(d) == [i \in DOMAIN d |-> UNION {d[k] : k \in DOMAIN d}]

\* what each dim-0 index of a module's output is computed from: batch
\* normalization in training mode uses the statistics of the whole batch,
\* every other module of convnet works on each example alone
ModuleDeps(m, d, training) ==
    IF m.op = "BatchNorm2d" /\ training THEN MixDim0(d) ELSE d

\* line 86 left out: x keeps the layout (N, embed, sequence)
TransposeSkipped(s) == s

\* torch.transpose(x, 1, 2) on a 3-D tensor
Transpose12(s) == IF Len(s) = 3 THEN << s[1], s[3], s[2] >> ELSE NoShape

\* nn.MultiheadAttention(embed_dim, num_heads), networks.py:24: batch_first
\* keeps its default False, so a 3-D input is read as (sequence, batch, embed)
AttnShape(s, E) == IF Len(s) = 3 /\ s[3] = E THEN s ELSE NoShape

\* attention mixes along the sequence axis, which is dim 0 of its input
AttnDeps(d) == MixDim0(d)

\* nn.LayerNorm(E): the last dimension must be E
LayerNormShape(s, E) == IF Len(s) >= 1 /\ s[Len(s)] = E THEN s ELSE NoShape

\* nn.Linear(fin, fout): the last dimension fin becomes fout
LinearShape(s, fin, fout) ==
    IF Len(s) >= 1 /\ s[Len(s)] = fin THEN [s EXCEPT ![Len(s)] = fout] ELSE NoShape

\* a + b of the residual connections: equal shapes here, else a failure
AddShape(a, b) == IF a = b /\ a # NoShape THEN a ELSE NoShape

\* torch.mean(x, dim=1) of a 3-D tensor
MeanDim1(s) == IF Len(s) = 3 THEN << s[1], s[3] >> ELSE NoShape

\* the models that can be constructed (MultiheadAttention asserts that
\* num_heads divides embed_dim) and the calls made on them
Nets ==
    {n \in [num_layers : 1 .. MaxLayers, num_heads : 1 .. MaxHeads,
            input_embedding_size : {20, 40}, hidden_size : {16},
            num_classes : {4}, N : 1 .. MaxFwdBatch, training : BOOLEAN] :
        n.input_embedding_size % n.num_heads = 0}

FwdInit ==
    /\ AugIdle
    /\ BlkIdle
    /\ net \in Nets
    /\ fpc = "unsqueeze"
    /\ shape = << net.N, InChannels, WindowSize >>
    /\ deps = [i \in 0 .. (net.N - 1) |-> {i}]
    /\ layer = 0
    /\ block_in = << >>
    /\ ferr = "none"

\* a step of forward that yields shape s and data flow d, or raises
FwdStep(s, d, next) ==
    IF s = NoShape
    THEN /\ ferr' = "shape mismatch"
         /\ fpc' = "raised"
         /\ UNCHANGED <<shape, deps>>
    ELSE /\ shape' = s
         /\ deps' = d
         /\ fpc' = next
         /\ ferr' = ferr

\* networks.py:84
Unsqueeze ==
    /\ fpc = "unsqueeze"
    /\ FwdStep(<< shape[1], 1 >> \o SubSeq(shape, 2, Len(shape)), deps, "convnet")
    /\ layer' = 0
    /\ UNCHANGED <<net, block_in, augVars, blkVars>>

\* networks.py:85: nn.Sequential applies its modules in order; layer counts
\* the modules applied so far
ConvnetModule ==
    /\ fpc = "convnet"
    /\ LET mods == ConvNet(net.input_embedding_size)
           m == mods[layer + 1]
       IN  /\ FwdStep(ModuleShape(m, shape), ModuleDeps(m, deps, net.training),
                      IF layer + 1 < Len(mods) THEN "convnet" ELSE "transpose")
           /\ layer' = layer + 1
    /\ UNCHANGED <<net, block_in, augVars, blkVars>>

\* networks.py:86
Transpose ==
    /\ fpc = "transpose"
    /\ FwdStep(Transpose12(shape), deps, "encoder")
    /\ layer' = 0
    /\ UNCHANGED <<net, block_in, augVars, blkVars>>

\* networks.py:87-88 with 32-41: one encoder block
EncoderBlock ==
    /\ fpc = "encoder"
    /\ layer < net.num_layers
    /\ LET E == net.input_embedding_size
           attn == AttnShape(shape, E)
           res1 == AddShape(AddShape(shape, attn), attn)
           n1 == IF res1 = NoShape THEN NoShape ELSE LayerNormShape(res1, E)
           ff1 == IF n1 = NoShape THEN NoShape ELSE LinearShape(n1, E, net.hidden_size)
           ff2 == IF ff1 = NoShape THEN NoShape ELSE LinearShape(ff1, net.hidden_size, E)
           res2 == AddShape(n1, ff2)
           n2 == IF res2 = NoShape THEN NoShape ELSE LayerNormShape(res2, E)
       IN  FwdStep(n2, AttnDeps(deps), "encoder")
    /\ block_in' = shape
    /\ layer' = layer + 1
    /\ UNCHANGED <<net, augVars, blkVars>>

\* networks.py:89
Mean ==
    /\ fpc = "encoder"
    /\ layer >= net.num_layers
    /\ FwdStep(MeanDim1(shape), deps, "fc")
    /\ UNCHANGED <<net, layer, block_in, augVars, blkVars>>

\* networks.py:90-91 with 74-77
Fc ==
    /\ fpc = "fc"
    /\ LET n == LayerNormShape(shape, net.input_embedding_size)
       IN  FwdStep(IF n = NoShape THEN NoShape
                   ELSE LinearShape(n, net.input_embedding_size, net.num_classes),
                   deps, "returned")
    /\ UNCHANGED <<net, layer, block_in, augVars, blkVars>>

FwdNext ==
    \/ Unsqueeze
    \/ ConvnetModule
    \/ Transpose
    \/ EncoderBlock
    \/ Mean
    \/ Fc

SpecFwd == FwdInit /\ [][FwdNext]_vars

(* Properties of forward *)

\* C5: an input (N, 22, 1125) passes every stage without a shape mismatch;
\* the sequence length after the featurizer is the same fixed value
\* ((1125 - 19) - 30) div 15 + 1 for every N; each encoder block returns
\* the shape it received; the result has shape (N, num_classes).
C5_ShapeContract ==
    /\ ferr = "none"
    /\ fpc # "raised"
    /\ fpc = "encoder" =>
          /\ shape = << net.N, ((WindowSize - 19) - 30) \div 15 + 1,
                        net.input_embedding_size >>
          /\ layer > 0 => shape = block_in
    /\ fpc = "returned" => shape = << net.N, net.num_classes >>

\* the scenario of the spec: 2 layers, 4 heads, width 40, a batch of 8
C5_Witness ==
    /\ fpc = "returned"
    /\ net.N = 8 /\ net.num_layers = 2 /\ net.num_heads = 4
    /\ net.input_embedding_size = 40
    /\ shape = << 8, 4 >>

\* C6: with dropout disabled and normalization statistics fixed (eval
\* mode), the logits of batch element i depend only on input window i.
C6_BatchIndependence ==
    (fpc = "returned" /\ ~net.training) =>
        \A i \in DOMAIN deps : deps[i] \subseteq {i}

----------------------------------------------------------------------------
(* TransformerBlock.forward on values.                                     *)
(*                                                                         *)
(* One sequence position of one example, embedding width 2, feed-forward   *)
(* width 1, integer activations.  Two executions of the block run side by  *)
(* side on the same input and parameters, each with its own dropout masks. *)
(* The output of self_attn is any tensor of x's shape (its output          *)
(* projection has a free bias), the same in both executions.               *)

\* activations and attention outputs range over -MaxVal .. MaxVal
MaxVal == 1

Width == {1, 2}
Vec == [Width -> (-MaxVal) .. MaxVal]
ZeroVec == [i \in Width |-> 0]
VecAdd(a, b) == [i \in Width |-> a[i] + b[i]]

Sgn(v) == IF v > 0 THEN 1 ELSE IF v < 0 THEN -1 ELSE 0

\* nn.Dropout: the identity in eval mode; in training mode an element is
\* zeroed where the mask is 0 and scaled by 1/(1-p) where it is 1
Dropout(v, m, training, scale) ==
    IF training THEN [i \in Width |-> v[i] * m[i] * scale] ELSE v

\* the masks a dropout call can draw
Masks(training) == IF training THEN [Width -> {0, 1}] ELSE {[i \in Width |-> 1]}

\* nn.LayerNorm over a width-2 embedding with its initial weight 1 and
\* bias 0, eps neglected: (a, b) becomes (sgn(a - b), sgn(b - a))
LayerNorm(v) == << Sgn(v[1] - v[2]), Sgn(v[2] - v[1]) >>

\* nn.Linear(2, 1) and nn.Linear(1, 2)
Linear1(v, w, b) == w[1] * v[1] + w[2] * v[2] + b
Linear2(h, w, b) == [i \in Width |-> w[i] * h + b[i]]

\* nn.SiLU, x * sigmoid(x), in thousandths, on the values LayerNorm returns
SiLU(v) == [i \in Width |-> CASE v[i] = 1 -> 731 [] v[i] = -1 -> -269 [] OTHER -> 0]

Runs == {1, 2}

BlkInit ==
    /\ AugIdle
    /\ FwdIdle
    /\ blk \in [X : Vec, A : Vec, training : BOOLEAN, scale : {2, 4},
                w1 : {<< 1, 2 >>}, b1 : {0, 1}, w2 : {<< 1, -1 >>}, b2 : {<< 0, 1 >>}]
    /\ bpc = "attn"
    /\ run = [k \in Runs |->
                [x |-> blk.X, attn_output |-> ZeroVec, m1 |-> ZeroVec, d1 |-> ZeroVec,
                 norm1_in |-> ZeroVec, n1out |-> ZeroVec, h |-> 0, ff_output |-> ZeroVec,
                 m2 |-> ZeroVec, d2 |-> ZeroVec, norm2_in |-> ZeroVec]]

\* networks.py:33
B_Attn ==
    /\ bpc = "attn"
    /\ run' = [k \in Runs |-> [run[k] EXCEPT !.attn_output = blk.A]]
    /\ bpc' = "residual1"
    /\ UNCHANGED <<blk, augVars, fwdVars>>

\* line 34 with the result of dropout dropped: x is left as it was
B_Residual1Discarded ==
    /\ bpc = "residual1"
    /\ \E ms \in [Runs -> Masks(blk.training)] :
          run' = [k \in Runs |->
                    LET d == Dropout(run[k].attn_output, ms[k], blk.training, blk.scale)
                    IN  [run[k] EXCEPT !.m1 = ms[k], !.d1 = d]]
    /\ bpc' = "norm1"
    /\ UNCHANGED <<blk, augVars, fwdVars>>

\* networks.py:34: x = x + self.dropout(attn_output)
B_Residual1 ==
    /\ bpc = "residual1"
    /\ \E ms \in [Runs -> Masks(blk.training)] :
          run' = [k \in Runs |->
                    LET d == Dropout(run[k].attn_output, ms[k], blk.training, blk.scale)
                    IN  [run[k] EXCEPT !.m1 = ms[k], !.d1 = d,
                                       !.x = VecAdd(run[k].x, d)]]
    /\ bpc' = "norm1"
    /\ UNCHANGED <<blk, augVars, fwdVars>>

\* networks.py:35: x = self.norm1(x + attn_output), x being line 34's x
B_Norm1 ==
    /\ bpc = "norm1"
    /\ run' = [k \in Runs |->
                LET in == VecAdd(run[k].x, run[k].attn_output)
                IN  [run[k] EXCEPT !.norm1_in = in, !.x = LayerNorm(in),
                                   !.n1out = LayerNorm(in)]]
    /\ bpc' = "linear1"
    /\ UNCHANGED <<blk, augVars, fwdVars>>

\* networks.py:36
B_Linear1 ==
    /\ bpc = "linear1"
    /\ run' = [k \in Runs |-> [run[k] EXCEPT !.h = Linear1(run[k].x, blk.w1, blk.b1)]]
    /\ bpc' = "linear2"
    /\ UNCHANGED <<blk, augVars, fwdVars>>

\* networks.py:37
B_Linear2 ==
    /\ bpc = "linear2"
    /\ run' = [k \in Runs |->
                [run[k] EXCEPT !.ff_output = Linear2(run[k].h, blk.w2, blk.b2)]]
    /\ bpc' = "residual2"
    /\ UNCHANGED <<blk, augVars, fwdVars>>

\* line 38 with the result of dropout dropped: the raw ff_output is added
B_Residual2Discarded ==
    /\ bpc = "residual2"
    /\ \E ms \in [Runs -> Masks(blk.training)] :
          run' = [k \in Runs |->
                    LET d == Dropout(run[k].ff_output, ms[k], blk.training, blk.scale)
                    IN  [run[k] EXCEPT !.m2 = ms[k], !.d2 = d,
                                       !.x = VecAdd(run[k].x, run[k].ff_output)]]
    /\ bpc' = "norm2"
    /\ UNCHANGED <<blk, augVars, fwdVars>>

\* networks.py:38: x = x + self.dropout(ff_output)
B_Residual2 ==
    /\ bpc = "residual2"
    /\ \E ms \in [Runs -> Masks(blk.training)] :
          run' = [k \in Runs |->
                    LET d == Dropout(run[k].ff_output, ms[k], blk.training, blk.scale)
                    IN  [run[k] EXCEPT !.m2 = ms[k], !.d2 = d,
                                       !.x = VecAdd(run[k].x, d)]]
    /\ bpc' = "norm2"
    /\ UNCHANGED <<blk, augVars, fwdVars>>

\* networks.py:39
B_Norm2 ==
    /\ bpc = "norm2"
    /\ run' = [k \in Runs |->
                [run[k] EXCEPT !.norm2_in = run[k].x, !.x = LayerNorm(run[k].x)]]
    /\ bpc' = "silu"
    /\ UNCHANGED <<blk, augVars, fwdVars>>

\* networks.py:40-41
B_Silu ==
    /\ bpc = "silu"
    /\ run' = [k \in Runs |-> [run[k] EXCEPT !.x = SiLU(run[k].x)]]
    /\ bpc' = "returned"
    /\ UNCHANGED <<blk, augVars, fwdVars>>

BlkNext ==
    \/ B_Attn
    \/ B_Residual1
    \/ B_Norm1
    \/ B_Linear1
    \/ B_Linear2
    \/ B_Residual2
    \/ B_Norm2
    \/ B_Silu

SpecBlock == BlkInit /\ [][BlkNext]_vars

(* Properties of the block *)

AfterNorm1 == bpc \in {"linear1", "linear2", "residual2", "norm2", "silu", "returned"}
AfterNorm2 == bpc \in {"silu", "returned"}

\* C8, as claimed: the input of norm1 is exactly X + attn_output, for every
\* dropout mask, identity included.
C8_Norm1InputIsXPlusAttn ==
    AfterNorm1 => \A k \in Runs : run[k].norm1_in = VecAdd(blk.X, blk.A)

\* C8, amended: line 34's x is read on line 35, so the input of norm1 is
\* X + dropout(attn_output) + attn_output; with dropout the identity that
\* is X + 2 attn_output.
C8_Norm1InputAddsAttnTwice ==
    AfterNorm1 =>
        \A k \in Runs :
            /\ run[k].d1 = Dropout(blk.A, run[k].m1, blk.training, blk.scale)
            /\ run[k].norm1_in = VecAdd(VecAdd(blk.X, run[k].d1), blk.A)
            /\ ~blk.training => run[k].norm1_in = VecAdd(blk.X, VecAdd(blk.A, blk.A))

\* norm1 has run on a non-zero attention output whose dropout kept something
C8_Witness ==
    /\ AfterNorm1
    /\ blk.A # ZeroVec
    /\ run[1].d1 # ZeroVec
    /\ run[1].norm1_in # VecAdd(blk.X, blk.A)

\* C9, as claimed: the input of norm2 is (norm1 output) + ff_output with no
\* dropout, so two runs on the same input and parameters with different
\* dropout masks give the same norm2 input.
C9_DropoutInert ==
    AfterNorm2 =>
        /\ \A k \in Runs : run[k].norm2_in = VecAdd(run[k].n1out, run[k].ff_output)
        /\ run[1].norm2_in = run[2].norm2_in

\* C9, amended: the input of norm2 is (norm1 output) + dropout(ff_output),
\* with ff_output = linear2(linear1(norm1 output)) and no activation in
\* between; it is (norm1 output) + ff_output when dropout is the identity,
\* and two runs agree on it when their dropout masks agree.
C9_Norm2InputUsesDropout ==
    AfterNorm2 =>
        /\ \A k \in Runs :
              /\ run[k].ff_output =
                    Linear2(Linear1(run[k].n1out, blk.w1, blk.b1), blk.w2, blk.b2)
              /\ run[k].d2 = Dropout(run[k].ff_output, run[k].m2, blk.training, blk.scale)
              /\ run[k].norm2_in = VecAdd(run[k].n1out, run[k].d2)
              /\ ~blk.training =>
                    run[k].norm2_in = VecAdd(run[k].n1out, run[k].ff_output)
        /\ (run[1].m1 = run[2].m1 /\ run[1].m2 = run[2].m2) =>
              run[1].norm2_in = run[2].norm2_in

\* two runs that left norm1 with the same output and differ, after the
\* second dropout, in the input of norm2
C9_Witness ==
    /\ AfterNorm2
    /\ blk.training
    /\ run[1].n1out = run[2].n1out
    /\ run[1].m2 # run[2].m2
    /\ run[1].norm2_in # run[2].norm2_in

====
